---- MODULE Spec2Model ----
(***************************************************************************)
(* Hook registries of hookmanager: createHookManager (core), its scoped    *)
(* wrapper, createPriorityHookManager and createParallelHookManager.       *)
(*                                                                         *)
(* One registry instance is modelled per behaviour; Init chooses which     *)
(* factory built it.  `hooks` is the instance's Map (JavaScript Maps       *)
(* iterate in insertion order, so it is a sequence of key/value pairs) and *)
(* `calls` holds the `on` calls in flight: an async function runs          *)
(* synchronously up to its first await and is resumed later, so other      *)
(* calls on the same instance interleave at every await.                   *)
(*                                                                         *)
(* The list-based registries store Array objects in the Map and a          *)
(* suspended `on` keeps a reference to the array it iterates.  register    *)
(* changes that array in place; unregister puts a new array in the Map (or *)
(* deletes the key) and leaves the old one, which nothing can change any   *)
(* more, to the calls that iterate it.  A call therefore either shares the *)
(* array the Map holds under its name (`shared`) or owns the elements of   *)
(* an array the Map has dropped (`own`).                                   *)
(*                                                                         *)
(* Observation variables (not program state): `live` is the set of         *)
(* registrations made and not yet removed, `nextId` numbers registrations  *)
(* in the order they were made, the `id` field of an entry is the number   *)
(* of the registration that made it, and the `mut` field of a call says    *)
(* that the Map entry of its name was written while it was suspended.      *)
(* What an API call returns or throws is an operator of the state it is    *)
(* made in (BasicRegisterResult, PriorityUnregisterResult, ...).           *)
(***************************************************************************)
EXTENDS Integers, Sequences, FiniteSets, TLC

VARIABLES kind, hooks, calls, live, nextId

vars == <<kind, hooks, calls, live, nextId>>

(* ------------------------------ bounds -------------------------------- *)

\* registrations made over one behaviour
MaxRegs == 3

Kinds == {"basic", "scoped", "priority", "parallel"}
Names == {"a", "b"}
Fns == {"f", "g"}
\* register(name, fn, priority = 10)
DefaultPriority == 10
Priorities == {5, DefaultPriority, 20}

\* The register calls tried: every callback and priority under "a", and one
\* registration under "b", the name the others must leave alone.
RegisterArgs ==
    {r \in [name : Names, fn : Fns, priority : Priorities] :
        r.name = "a" \/ (r.fn = "f" /\ r.priority = DefaultPriority)}
\* the same for the registries whose register takes no priority
PlainArgs == {r \in RegisterArgs : r.priority = DefaultPriority}
\* the unregister calls tried; NoFn is the call without the optional fn
UnregisterArgs ==
    {r \in [name : Names, fn : Fns \cup {"undefined"}] : r.name = "a" \/ r.fn # "g"}
\* One `on` call is followed at a time: a call writes nothing that another
\* call reads, so calls in flight do not influence one another.
Calls == {"c1"}

\* createScopedHookManager(prefix)
Prefix == "user"

\* unregister(name) called without its optional fn argument
NoFn == "undefined"

(* ----------------------- errors (src/errors.ts) ----------------------- *)

\* an Error("boom"), and a thrown value that is not an Error object
ErrBoom == [isError |-> TRUE, cls |-> "Error", message |-> "boom"]
NonError == [isError |-> FALSE, cls |-> "string", message |-> "oops"]

NoErr == [isError |-> FALSE, cls |-> "none", message |-> ""]

HookError(message) == [isError |-> TRUE, cls |-> "HookError", message |-> message]

HookNotFoundError(hookName) ==
    [isError |-> TRUE, cls |-> "HookNotFoundError",
     message |-> "Hook \"" \o hookName \o "\" is not registered"]

DuplicateHookError(hookName) ==
    [isError |-> TRUE, cls |-> "DuplicateHookError",
     message |-> "Hook \"" \o hookName \o "\" is already registered"]

\* What a callback may throw when invoked: a plain Error, a value that is not
\* an Error object, or the DuplicateHookError a register call of its own
\* threw (register is synchronous).
ThrownValues == {ErrBoom, NonError, DuplicateHookError("inner")}

\* What the promise a callback returned may be rejected with: the same, the
\* library error being the HookNotFoundError an `on` call of its own was
\* rejected with (on is asynchronous).
RejectedValues == {ErrBoom, NonError, HookNotFoundError("inner")}

\* WrapError that lets the errors of the library through as they are
WrapErrorKeepsHookErrors(name, error) ==
    IF error.isError /\ error.cls \in {"HookError", "HookNotFoundError", "DuplicateHookError"}
    THEN error
    ELSE IF error.isError
    THEN HookError("Error in hook \"" \o name \o "\": " \o error.message)
    ELSE HookError("Unknown error in hook \"" \o name \o "\"")

\* the catch block shared by the three `on` implementations
WrapError(name, error) ==
    IF error.isError
    THEN HookError("Error in hook \"" \o name \o "\": " \o error.message)
    ELSE HookError("Unknown error in hook \"" \o name \o "\"")

(* ------------------- Map: insertion-ordered key/value ------------------ *)

MapHas(m, k) == \E i \in 1..Len(m) : m[i].key = k

MapGet(m, k) == m[CHOOSE i \in 1..Len(m) : m[i].key = k].val


\* MapSet with a container that puts a new key first
MapSetFront(m, k, v) ==
    IF MapHas(m, k)
    THEN [i \in 1..Len(m) |-> IF m[i].key = k THEN [key |-> k, val |-> v] ELSE m[i]]
    ELSE <<[key |-> k, val |-> v]>> \o m

\* Map.prototype.set: an existing key keeps its position, a new key goes last
MapSet(m, k, v) ==
    IF MapHas(m, k)
    THEN [i \in 1..Len(m) |-> IF m[i].key = k THEN [key |-> k, val |-> v] ELSE m[i]]
    ELSE Append(m, [key |-> k, val |-> v])

MapDelete(m, k) == SelectSeq(m, LAMBDA e : e.key # k)

MapKeys(m) == [i \in 1..Len(m) |-> m[i].key]

(* ------------------------- callbacks and calls ------------------------ *)

\* What a callback does when it is invoked: return a value that is not a
\* promise, throw, or return a promise that settles later (or never: a
\* promise nobody settles stays "running").
Behaviours ==
    {[how |-> "return", val |-> NoErr], [how |-> "promise", val |-> NoErr]}
    \cup {[how |-> "throw", val |-> v] : v \in ThrownValues}

\* how a pending promise settles
Settlements ==
    {[st |-> "fulfilled", val |-> NoErr]}
    \cup {[st |-> "rejected", val |-> v] : v \in RejectedValues}

\* hook(data): the task the invocation of a stored entry starts
Invoke(entry, beh) ==
    [entry |-> entry,
     st |-> CASE beh.how = "return" -> "fulfilled"
              [] beh.how = "throw" -> "threw"
              [] beh.how = "promise" -> "running",
     val |-> beh.val]

\* an `on` call that has not been made; `rej` is the callback whose rejection
\* the Promise.all of a suspended concurrent call has taken, 0 when none
IdleCall ==
    [st |-> "idle", name |-> "", par |-> FALSE, shared |-> FALSE, own |-> <<>>,
     idx |-> 0, tasks |-> <<>>, rej |-> 0, err |-> NoErr, mut |-> FALSE]

\* the promise an async `on` returns, rejected before its first await
Rejected(name, par, tasks, error) ==
    [IdleCall EXCEPT !.st = "rejected", !.name = name, !.par = par, !.tasks = tasks,
                     !.err = error]

\* the call suspended at an await, `idx` elements of its array consumed
Awaiting(name, par, shared, idx, tasks) ==
    [IdleCall EXCEPT !.st = "pending", !.name = name, !.par = par, !.shared = shared,
                     !.idx = idx, !.tasks = tasks]

\* `throw new HookError(...)` in the catch block of a suspended call
Fail(call, tasks, error) ==
    [call EXCEPT !.st = "rejected", !.shared = FALSE, !.own = <<>>, !.idx = 0,
                 !.tasks = tasks, !.rej = 0, !.err = error]

\* the suspended call runs off its end
Succeed(call) ==
    [call EXCEPT !.st = "resolved", !.shared = FALSE, !.own = <<>>, !.idx = 0, !.rej = 0]

\* a registration or removal under `name` reaches the calls of `name` in flight
Touch(cs, name) ==
    [c \in Calls |->
        IF cs[c].st = "pending" /\ cs[c].name = name
        THEN [cs[c] EXCEPT !.mut = TRUE] ELSE cs[c]]

\* the Map drops the array `old` it held under `name`: the calls iterating
\* it keep it
Detach(cs, name, old) ==
    [c \in Calls |->
        IF cs[c].st = "pending" /\ cs[c].name = name /\ cs[c].shared
        THEN [cs[c] EXCEPT !.shared = FALSE, !.own = old] ELSE cs[c]]

\* `hooksList` of a suspended call: the array object it got from the Map
HooksList(call) == IF call.shared THEN MapGet(hooks, call.name) ELSE call.own

(* ----------- createHookManager (core, listed in src/readme.md) --------- *)

BasicHas(name) == MapHas(hooks, name)

BasicList == MapKeys(hooks)

\* what register(name, fn) throws or returns in the current state
BasicRegisterResult(name) ==
    IF MapHas(hooks, name) THEN DuplicateHookError(name).cls ELSE "void"


\* BasicRegister without the duplicate check: the new callback replaces the old
BasicRegisterOverwrite(name, fn) ==
    /\ nextId <= MaxRegs
    /\ hooks' = MapSet(hooks, name, [fn |-> fn, id |-> nextId])
    /\ live' = live \cup {[id |-> nextId, name |-> name, fn |-> fn]}
    /\ nextId' = nextId + 1
    /\ calls' = Touch(calls, name)
    /\ UNCHANGED kind

BasicRegister(name, fn) ==
    IF MapHas(hooks, name)
    THEN UNCHANGED vars
    ELSE /\ nextId <= MaxRegs
         /\ hooks' = MapSet(hooks, name, [fn |-> fn, id |-> nextId])
         /\ live' = live \cup {[id |-> nextId, name |-> name, fn |-> fn]}
         /\ nextId' = nextId + 1
         /\ calls' = Touch(calls, name)
         /\ UNCHANGED kind

\* what unregister(name) returns in the current state: hooks.delete(name)
BasicUnregisterResult(name) == MapHas(hooks, name)


\* BasicUnregister that leaves the key in the Map
BasicUnregisterKeepsKey(name) ==
    /\ hooks' = hooks
    /\ live' = {r \in live : r.name # name}
    /\ calls' = IF MapHas(hooks, name) THEN Touch(calls, name) ELSE calls
    /\ UNCHANGED <<kind, nextId>>

\* BasicUnregister that empties the Map: hooks.clear()
BasicUnregisterClears(name) ==
    /\ hooks' = IF MapHas(hooks, name) THEN <<>> ELSE hooks
    /\ live' = {r \in live : r.name # name}
    /\ calls' = IF MapHas(hooks, name) THEN Touch(calls, name) ELSE calls
    /\ UNCHANGED <<kind, nextId>>

BasicUnregister(name) ==
    /\ hooks' = MapDelete(hooks, name)
    /\ live' = {r \in live : r.name # name}
    /\ calls' = IF MapHas(hooks, name) THEN Touch(calls, name) ELSE calls
    /\ UNCHANGED <<kind, nextId>>


\* BasicOn that treats a missing hook as nothing to do
BasicOnSilent(c, name, beh) ==
    /\ calls[c].st = "idle"
    /\ IF ~MapHas(hooks, name)
       THEN calls' = [calls EXCEPT ![c] = Succeed(Awaiting(name, FALSE, FALSE, 0, <<>>))]
       ELSE LET task == Invoke(MapGet(hooks, name), beh)
            IN  calls' = [calls EXCEPT ![c] =
                    IF task.st = "threw"
                    THEN Rejected(name, FALSE, <<task>>, WrapError(name, task.val))
                    ELSE Awaiting(name, FALSE, FALSE, 0, <<task>>)]
    /\ UNCHANGED <<kind, hooks, live, nextId>>

\* BasicOn without the await: the call resolves with its callback running
BasicOnNoAwait(c, name, beh) ==
    /\ calls[c].st = "idle"
    /\ IF ~MapHas(hooks, name)
       THEN calls' = [calls EXCEPT ![c] = Rejected(name, FALSE, <<>>, HookNotFoundError(name))]
       ELSE LET task == Invoke(MapGet(hooks, name), beh)
            IN  calls' = [calls EXCEPT ![c] =
                    IF task.st = "threw"
                    THEN Rejected(name, FALSE, <<task>>, WrapError(name, task.val))
                    ELSE Succeed(Awaiting(name, FALSE, FALSE, 0, <<task>>))]
    /\ UNCHANGED <<kind, hooks, live, nextId>>

\* on(name): up to the first await
BasicOn(c, name, beh) ==
    /\ calls[c].st = "idle"
    /\ IF ~MapHas(hooks, name)
       THEN calls' = [calls EXCEPT ![c] = Rejected(name, FALSE, <<>>, HookNotFoundError(name))]
       ELSE LET task == Invoke(MapGet(hooks, name), beh)
            IN  calls' = [calls EXCEPT ![c] =
                    IF task.st = "threw"
                    THEN Rejected(name, FALSE, <<task>>, WrapError(name, task.val))
                    ELSE Awaiting(name, FALSE, FALSE, 0, <<task>>)]
    /\ UNCHANGED <<kind, hooks, live, nextId>>

\* on(name): the continuation after `await Promise.resolve(hook(data))`,
\* once the awaited promise has settled
BasicContinue(call) ==
    LET awaited == call.tasks[1]
    IN  IF awaited.st = "rejected"
        THEN Fail(call, call.tasks, WrapError(call.name, awaited.val))
        ELSE IF awaited.st = "fulfilled" THEN Succeed(call)
        ELSE call

(* ---------------- createPriorityHookManager (priorityHooks) ------------ *)


\* InsertByPriority under the comparator (a, b) => a.priority - b.priority
InsertByPriorityAscending(sorted, e) ==
    LET before == SelectSeq(sorted, LAMBDA x : ~(e.priority - x.priority < 0))
        after == SelectSeq(sorted, LAMBDA x : e.priority - x.priority < 0)
    IN  before \o <<e>> \o after

\* InsertByPriority of a sort that is not stable: the new entry goes before
\* the entries of its priority
InsertByPriorityUnstable(sorted, e) ==
    LET before == SelectSeq(sorted, LAMBDA x : x.priority - e.priority > 0)
        after == SelectSeq(sorted, LAMBDA x : ~(x.priority - e.priority > 0))
    IN  before \o <<e>> \o after

\* the place Array.prototype.sort, which is stable, gives `e` among the
\* already ordered `sorted` under the comparator (a, b) => b.priority - a.priority
InsertByPriority(sorted, e) ==
    LET before == SelectSeq(sorted, LAMBDA x : ~(x.priority - e.priority < 0))
        after == SelectSeq(sorted, LAMBDA x : x.priority - e.priority < 0)
    IN  before \o <<e>> \o after

RECURSIVE SortByPriority(_)
\* hooksList.sort((a, b) => b.priority - a.priority)
SortByPriority(list) ==
    IF list = <<>> THEN <<>>
    ELSE InsertByPriority(SortByPriority(SubSeq(list, 1, Len(list) - 1)), list[Len(list)])

PriorityHas(name) == MapHas(hooks, name) /\ Len(MapGet(hooks, name)) > 0

PriorityList == MapKeys(hooks)

PriorityRegister(name, fn, priority) ==
    /\ nextId <= MaxRegs
    /\ LET hooks1 == IF ~MapHas(hooks, name) THEN MapSet(hooks, name, <<>>) ELSE hooks
           hooksList == MapGet(hooks1, name)
           pushed == Append(hooksList, [priority |-> priority, fn |-> fn, id |-> nextId])
       IN  hooks' = MapSet(hooks1, name, SortByPriority(pushed))
    /\ live' = live \cup {[id |-> nextId, name |-> name, fn |-> fn, priority |-> priority]}
    /\ nextId' = nextId + 1
    /\ calls' = Touch(calls, name)
    /\ UNCHANGED kind

\* what unregister(name, fn) returns in the current state
PriorityUnregisterResult(name, fn) ==
    IF ~MapHas(hooks, name) THEN FALSE
    ELSE IF fn # NoFn
    THEN LET hooksList == MapGet(hooks, name)
             initialLength == Len(hooksList)
             newHooks == SelectSeq(hooksList, LAMBDA hook : hook.fn # fn)
         IN  initialLength # Len(newHooks)
    ELSE MapHas(hooks, name)


\* PriorityUnregister whose filter keeps the entries of fn instead of the others
PriorityUnregisterKeepsMatching(name, fn) ==
    /\ IF ~MapHas(hooks, name)
       THEN UNCHANGED <<hooks, calls>>
       ELSE IF fn # NoFn
       THEN LET hooksList == MapGet(hooks, name)
                newHooks == SelectSeq(hooksList, LAMBDA hook : hook.fn = fn)
                hooks1 == MapSet(hooks, name, newHooks)
            IN  /\ hooks' = IF Len(newHooks) = 0 THEN MapDelete(hooks1, name) ELSE hooks1
                /\ calls' = Touch(Detach(calls, name, hooksList), name)
       ELSE /\ hooks' = MapDelete(hooks, name)
            /\ calls' = Touch(Detach(calls, name, MapGet(hooks, name)), name)
    /\ live' = {r \in live : ~(r.name = name /\ (fn = NoFn \/ r.fn = fn))}
    /\ UNCHANGED <<kind, nextId>>

\* PriorityUnregister without `if (newHooks.length === 0) hooks.delete(name)`
PriorityUnregisterLeavesEmpty(name, fn) ==
    /\ IF ~MapHas(hooks, name)
       THEN UNCHANGED <<hooks, calls>>
       ELSE IF fn # NoFn
       THEN LET hooksList == MapGet(hooks, name)
                newHooks == SelectSeq(hooksList, LAMBDA hook : hook.fn # fn)
            IN  /\ hooks' = MapSet(hooks, name, newHooks)
                /\ calls' = Touch(Detach(calls, name, hooksList), name)
       ELSE /\ hooks' = MapDelete(hooks, name)
            /\ calls' = Touch(Detach(calls, name, MapGet(hooks, name)), name)
    /\ live' = {r \in live : ~(r.name = name /\ (fn = NoFn \/ r.fn = fn))}
    /\ UNCHANGED <<kind, nextId>>

PriorityUnregister(name, fn) ==
    /\ IF ~MapHas(hooks, name)
       THEN UNCHANGED <<hooks, calls>>
       ELSE IF fn # NoFn
       THEN LET hooksList == MapGet(hooks, name)
                newHooks == SelectSeq(hooksList, LAMBDA hook : hook.fn # fn)
                hooks1 == MapSet(hooks, name, newHooks)
            IN  /\ hooks' = IF Len(newHooks) = 0 THEN MapDelete(hooks1, name) ELSE hooks1
                /\ calls' = Touch(Detach(calls, name, hooksList), name)
       ELSE /\ hooks' = MapDelete(hooks, name)
            /\ calls' = Touch(Detach(calls, name, MapGet(hooks, name)), name)
    /\ live' = {r \in live : ~(r.name = name /\ (fn = NoFn \/ r.fn = fn))}
    /\ UNCHANGED <<kind, nextId>>

\* PriorityOn that takes its first callback off the stored array: hooksList.shift()
PriorityOnShift(c, name, beh) ==
    /\ calls[c].st = "idle"
    /\ IF ~MapHas(hooks, name) \/ Len(MapGet(hooks, name)) = 0
       THEN /\ calls' = [calls EXCEPT ![c] = Rejected(name, FALSE, <<>>, HookNotFoundError(name))]
            /\ hooks' = hooks
       ELSE LET hooksList == MapGet(hooks, name)
                task == Invoke(hooksList[1], beh)
            IN  /\ calls' = [calls EXCEPT ![c] =
                       IF task.st = "threw"
                       THEN Rejected(name, FALSE, <<task>>, WrapError(name, task.val))
                       ELSE Awaiting(name, FALSE, TRUE, 0, <<task>>)]
                /\ hooks' = MapSet(hooks, name, Tail(hooksList))
    /\ UNCHANGED <<kind, live, nextId>>

\* on(name): up to the first await
PriorityOn(c, name, beh) ==
    /\ calls[c].st = "idle"
    /\ IF ~MapHas(hooks, name) \/ Len(MapGet(hooks, name)) = 0
       THEN calls' = [calls EXCEPT ![c] = Rejected(name, FALSE, <<>>, HookNotFoundError(name))]
       ELSE LET hooksList == MapGet(hooks, name)
                task == Invoke(hooksList[1], beh)
            IN  calls' = [calls EXCEPT ![c] =
                    IF task.st = "threw"
                    THEN Rejected(name, FALSE, <<task>>, WrapError(name, task.val))
                    ELSE Awaiting(name, FALSE, TRUE, 1, <<task>>)]
    /\ UNCHANGED <<kind, hooks, live, nextId>>


\* PriorityContinue with the try/catch inside the loop: a rejected callback
\* is passed over and the next one is invoked
PriorityContinueSkipsFailed(call, beh) ==
    LET awaited == call.tasks[Len(call.tasks)]
        hooksList == HooksList(call)
        task == Invoke(hooksList[call.idx + 1], beh)
    IN  IF awaited.st \notin {"fulfilled", "rejected"} THEN call
        ELSE IF call.idx >= Len(hooksList) THEN Succeed(call)
        ELSE IF task.st = "threw"
        THEN Fail(call, Append(call.tasks, task), WrapError(call.name, task.val))
        ELSE [call EXCEPT !.idx = @ + 1, !.tasks = Append(@, task)]

\* PriorityContinue whose loop does not end with the list: past the last
\* entry the call stays suspended
PriorityContinueNeverEnds(call, beh) ==
    LET awaited == call.tasks[Len(call.tasks)]
        hooksList == HooksList(call)
        task == Invoke(hooksList[call.idx + 1], beh)
    IN  IF awaited.st = "rejected"
        THEN Fail(call, call.tasks, WrapError(call.name, awaited.val))
        ELSE IF awaited.st # "fulfilled" THEN call
        ELSE IF call.idx >= Len(hooksList) THEN call
        ELSE IF task.st = "threw"
        THEN Fail(call, Append(call.tasks, task), WrapError(call.name, task.val))
        ELSE [call EXCEPT !.idx = @ + 1, !.tasks = Append(@, task)]

\* on(name): the continuation after an await inside the for-of loop, once the
\* awaited promise has settled; the loop reads the array it iterates afresh
\* at every step
PriorityContinue(call, beh) ==
    LET awaited == call.tasks[Len(call.tasks)]
        hooksList == HooksList(call)
        task == Invoke(hooksList[call.idx + 1], beh)
    IN  IF awaited.st = "rejected"
        THEN Fail(call, call.tasks, WrapError(call.name, awaited.val))
        ELSE IF awaited.st # "fulfilled" THEN call
        ELSE IF call.idx >= Len(hooksList) THEN Succeed(call)
        ELSE IF task.st = "threw"
        THEN Fail(call, Append(call.tasks, task), WrapError(call.name, task.val))
        ELSE [call EXCEPT !.idx = @ + 1, !.tasks = Append(@, task)]

(* ---------------- createParallelHookManager (parallelHooks) ------------ *)

ParallelHas(name) == MapHas(hooks, name) /\ Len(MapGet(hooks, name)) > 0

ParallelList == MapKeys(hooks)


\* ParallelRegister with unshift in place of push: the new callback goes first
ParallelRegisterUnshift(name, fn) ==
    /\ nextId <= MaxRegs
    /\ LET hooks1 == IF ~MapHas(hooks, name) THEN MapSet(hooks, name, <<>>) ELSE hooks
       IN  hooks' = MapSet(hooks1, name, <<[fn |-> fn, id |-> nextId]>> \o MapGet(hooks1, name))
    /\ live' = live \cup {[id |-> nextId, name |-> name, fn |-> fn]}
    /\ nextId' = nextId + 1
    /\ calls' = Touch(calls, name)
    /\ UNCHANGED kind

ParallelRegister(name, fn) ==
    /\ nextId <= MaxRegs
    /\ LET hooks1 == IF ~MapHas(hooks, name) THEN MapSet(hooks, name, <<>>) ELSE hooks
       IN  hooks' = MapSet(hooks1, name, Append(MapGet(hooks1, name), [fn |-> fn, id |-> nextId]))
    /\ live' = live \cup {[id |-> nextId, name |-> name, fn |-> fn]}
    /\ nextId' = nextId + 1
    /\ calls' = Touch(calls, name)
    /\ UNCHANGED kind

\* what unregister(name, fn) returns in the current state
ParallelUnregisterResult(name, fn) ==
    IF ~MapHas(hooks, name) THEN FALSE
    ELSE IF fn # NoFn
    THEN LET hooksList == MapGet(hooks, name)
             initialLength == Len(hooksList)
             newHooks == SelectSeq(hooksList, LAMBDA hook : hook.fn # fn)
         IN  initialLength # Len(newHooks)
    ELSE MapHas(hooks, name)

\* ParallelUnregister that removes one entry, the first whose callback is fn
\* (indexOf and splice in place of filter)
ParallelUnregisterFirstOnly(name, fn) ==
    /\ IF ~MapHas(hooks, name)
       THEN UNCHANGED <<hooks, calls>>
       ELSE IF fn # NoFn
       THEN LET hooksList == MapGet(hooks, name)
                found == {i \in 1..Len(hooksList) : hooksList[i].fn = fn}
                first == IF found = {} THEN 0
                         ELSE CHOOSE i \in found : \A j \in found : i <= j
                newHooks == SubSeq(hooksList, 1, first - 1)
                                \o SubSeq(hooksList, first + 1, Len(hooksList))
                hooks1 == MapSet(hooks, name, newHooks)
            IN  /\ hooks' = IF Len(newHooks) = 0 THEN MapDelete(hooks1, name) ELSE hooks1
                /\ calls' = Touch(Detach(calls, name, hooksList), name)
       ELSE /\ hooks' = MapDelete(hooks, name)
            /\ calls' = Touch(Detach(calls, name, MapGet(hooks, name)), name)
    /\ live' = {r \in live : ~(r.name = name /\ (fn = NoFn \/ r.fn = fn))}
    /\ UNCHANGED <<kind, nextId>>

ParallelUnregister(name, fn) ==
    /\ IF ~MapHas(hooks, name)
       THEN UNCHANGED <<hooks, calls>>
       ELSE IF fn # NoFn
       THEN LET hooksList == MapGet(hooks, name)
                newHooks == SelectSeq(hooksList, LAMBDA hook : hook.fn # fn)
                hooks1 == MapSet(hooks, name, newHooks)
            IN  /\ hooks' = IF Len(newHooks) = 0 THEN MapDelete(hooks1, name) ELSE hooks1
                /\ calls' = Touch(Detach(calls, name, hooksList), name)
       ELSE /\ hooks' = MapDelete(hooks, name)
            /\ calls' = Touch(Detach(calls, name, MapGet(hooks, name)), name)
    /\ live' = {r \in live : ~(r.name = name /\ (fn = NoFn \/ r.fn = fn))}
    /\ UNCHANGED <<kind, nextId>>

\* hooksList.map((hook) => Promise.resolve(hook(data))): the callbacks are
\* invoked one after the other in one synchronous run, which a throwing
\* callback ends
MapInvoke(hooksList, behs) ==
    LET throwers == {i \in 1..Len(hooksList) : behs[i].how = "throw"}
        n == IF throwers = {} THEN Len(hooksList)
             ELSE CHOOSE i \in throwers : \A j \in throwers : i <= j
    IN  [i \in 1..n |-> Invoke(hooksList[i], behs[i])]


\* ParallelOn that takes the Promise.all branch whatever `parallel` is
ParallelOnAllAtOnce(c, name, parallel, behs) ==
    /\ calls[c].st = "idle"
    /\ IF ~MapHas(hooks, name) \/ Len(MapGet(hooks, name)) = 0
       THEN calls' = [calls EXCEPT ![c] = Rejected(name, parallel, <<>>, HookNotFoundError(name))]
       ELSE LET hooksList == MapGet(hooks, name)
                tasks == MapInvoke(hooksList, behs)
                ended == tasks[Len(tasks)]
            IN  calls' = [calls EXCEPT ![c] =
                    IF ended.st = "threw"
                    THEN Rejected(name, parallel, tasks, WrapError(name, ended.val))
                    ELSE Awaiting(name, parallel, ~parallel, Len(tasks), tasks)]
    /\ UNCHANGED <<kind, hooks, live, nextId>>

\* on(name, data, parallel): up to the first await
ParallelOn(c, name, parallel, behs) ==
    /\ calls[c].st = "idle"
    /\ IF ~MapHas(hooks, name) \/ Len(MapGet(hooks, name)) = 0
       THEN calls' = [calls EXCEPT ![c] = Rejected(name, parallel, <<>>, HookNotFoundError(name))]
       ELSE LET hooksList == MapGet(hooks, name)
                tasks == IF parallel THEN MapInvoke(hooksList, behs)
                         ELSE <<Invoke(hooksList[1], behs[1])>>
                ended == tasks[Len(tasks)]
            IN  calls' = [calls EXCEPT ![c] =
                    IF ended.st = "threw"
                    THEN Rejected(name, parallel, tasks, WrapError(name, ended.val))
                    ELSE Awaiting(name, parallel, ~parallel, Len(tasks), tasks)]
    /\ UNCHANGED <<kind, hooks, live, nextId>>

\* ParallelContinue with Promise.race in place of Promise.all: the first
\* promise to settle settles the call
ParallelContinueRace(call, beh) ==
    LET awaited == call.tasks[Len(call.tasks)]
        hooksList == HooksList(call)
        task == Invoke(hooksList[call.idx + 1], beh)
    IN  IF call.par
        THEN IF call.rej # 0
             THEN Fail(call, call.tasks, WrapError(call.name, call.tasks[call.rej].val))
             ELSE IF \E i \in 1..Len(call.tasks) : call.tasks[i].st = "fulfilled"
             THEN Succeed(call)
             ELSE call
        ELSE IF awaited.st = "rejected"
        THEN Fail(call, call.tasks, WrapError(call.name, awaited.val))
        ELSE IF awaited.st # "fulfilled" THEN call
        ELSE IF call.idx >= Len(hooksList) THEN Succeed(call)
        ELSE IF task.st = "threw"
        THEN Fail(call, Append(call.tasks, task), WrapError(call.name, task.val))
        ELSE [call EXCEPT !.idx = @ + 1, !.tasks = Append(@, task)]

\* ParallelContinue with Promise.allSettled in place of Promise.all: the call
\* waits for every promise before it looks for a rejection
ParallelContinueAllSettled(call, beh) ==
    LET awaited == call.tasks[Len(call.tasks)]
        hooksList == HooksList(call)
        task == Invoke(hooksList[call.idx + 1], beh)
    IN  IF call.par
        THEN IF \E i \in 1..Len(call.tasks) : call.tasks[i].st = "running"
             THEN call
             ELSE IF call.rej # 0
             THEN Fail(call, call.tasks, WrapError(call.name, call.tasks[call.rej].val))
             ELSE Succeed(call)
        ELSE IF awaited.st = "rejected"
        THEN Fail(call, call.tasks, WrapError(call.name, awaited.val))
        ELSE IF awaited.st # "fulfilled" THEN call
        ELSE IF call.idx >= Len(hooksList) THEN Succeed(call)
        ELSE IF task.st = "threw"
        THEN Fail(call, Append(call.tasks, task), WrapError(call.name, task.val))
        ELSE [call EXCEPT !.idx = @ + 1, !.tasks = Append(@, task)]

\* on(name, data, parallel): the continuation after `await Promise.all(...)`,
\* which is rejected with the first rejection there was (`rej`) and fulfilled
\* when every promise is, or after an await inside the for-of loop; while the
\* awaited promise is pending the call stays as it is
ParallelContinue(call, beh) ==
    LET awaited == call.tasks[Len(call.tasks)]
        hooksList == HooksList(call)
        task == Invoke(hooksList[call.idx + 1], beh)
    IN  IF call.par
        THEN IF call.rej # 0
             THEN Fail(call, call.tasks, WrapError(call.name, call.tasks[call.rej].val))
             ELSE IF \A i \in 1..Len(call.tasks) : call.tasks[i].st = "fulfilled"
             THEN Succeed(call)
             ELSE call
        ELSE IF awaited.st = "rejected"
        THEN Fail(call, call.tasks, WrapError(call.name, awaited.val))
        ELSE IF awaited.st # "fulfilled" THEN call
        ELSE IF call.idx >= Len(hooksList) THEN Succeed(call)
        ELSE IF task.st = "threw"
        THEN Fail(call, Append(call.tasks, task), WrapError(call.name, task.val))
        ELSE [call EXCEPT !.idx = @ + 1, !.tasks = Append(@, task)]

(* ------------------------ createScopedHookManager ---------------------- *)

Scoped(name) == Prefix \o ":" \o name

StartsWith(s, p) == Len(s) >= Len(p) /\ SubSeq(s, 1, Len(p)) = p

Substring(s, start) == SubSeq(s, start + 1, Len(s))

ScopedRegister(name, fn) == BasicRegister(Scoped(name), fn)

ScopedUnregister(name) == BasicUnregister(Scoped(name))

ScopedHas(name) == BasicHas(Scoped(name))

\* ScopedList that cuts the prefix without its separator: substring(prefix.length)
ScopedListKeepsSeparator ==
    LET kept == SelectSeq(BasicList, LAMBDA n : StartsWith(n, Prefix \o ":"))
    IN  [i \in 1..Len(kept) |-> Substring(kept[i], Len(Prefix))]

ScopedList ==
    LET kept == SelectSeq(BasicList, LAMBDA n : StartsWith(n, Prefix \o ":"))
    IN  [i \in 1..Len(kept) |-> Substring(kept[i], Len(Prefix) + 1)]

ScopedOn(c, name, beh) == BasicOn(c, Scoped(name), beh)

(* ------------------------- the calls in flight ------------------------- *)

\* the code after the await, of the registry the instance is
Continue(call, beh) ==
    CASE kind \in {"basic", "scoped"} -> BasicContinue(call)
      [] kind = "priority" -> PriorityContinue(call, beh)
      [] kind = "parallel" -> ParallelContinue(call, beh)

\* The job queue resumes a suspended call whose awaited promise has settled:
\* a job of its own, after the step that settled the promise, so that other
\* calls on the instance come in between.
Resume(c, beh) ==
    /\ calls[c].st = "pending"
    /\ Continue(calls[c], beh) # calls[c]
    /\ calls' = [calls EXCEPT ![c] = Continue(calls[c], beh)]
    /\ UNCHANGED <<kind, hooks, live, nextId>>

\* A promise returned by a callback settles.  The Promise.all of a suspended
\* concurrent call takes the first rejection there is; the call is resumed
\* later, by Resume.
Settle(c, i, s) ==
    /\ i \in 1..Len(calls[c].tasks)
    /\ calls[c].tasks[i].st = "running"
    /\ calls' = [calls EXCEPT ![c].tasks[i].st = s.st, ![c].tasks[i].val = s.val,
                              ![c].rej = IF /\ calls[c].st = "pending" /\ calls[c].par
                                            /\ s.st = "rejected" /\ @ = 0
                                         THEN i ELSE @]
    /\ UNCHANGED <<kind, hooks, live, nextId>>

\* the caller has read the outcome of a settled call and may make another
Forget(c) ==
    /\ calls[c].st \in {"resolved", "rejected"}
    /\ calls' = [calls EXCEPT ![c] = IdleCall]
    /\ UNCHANGED <<kind, hooks, live, nextId>>

(* ------------------------------ behaviours ---------------------------- *)

Init ==
    /\ kind \in Kinds
    /\ hooks = <<>>
    /\ calls = [c \in Calls |-> IdleCall]
    /\ live = {}
    /\ nextId = 1

\* The outcome of a settled call is read, and the call forgotten, before the
\* next API call or continuation is looked at: the record of a settled call
\* is an observation, so no behaviour of the registry is lost.
Quiet == \A c \in Calls : calls[c].st \in {"idle", "pending"}

\* the length of the array on(name) would iterate
ListLen(name) == IF MapHas(hooks, name) THEN Len(MapGet(hooks, name)) ELSE 0

BasicRegisterStep ==
    \E r \in PlainArgs : Quiet /\ kind = "basic" /\ BasicRegister(r.name, r.fn)
BasicUnregisterStep ==
    \E n \in Names : Quiet /\ kind = "basic" /\ BasicUnregister(n)
BasicOnStep ==
    \E c \in Calls, n \in Names, b \in Behaviours : Quiet /\ kind = "basic" /\ BasicOn(c, n, b)
ScopedRegisterStep ==
    \E r \in PlainArgs : Quiet /\ kind = "scoped" /\ ScopedRegister(r.name, r.fn)
ScopedUnregisterStep ==
    \E n \in Names : Quiet /\ kind = "scoped" /\ ScopedUnregister(n)
ScopedOnStep ==
    \E c \in Calls, n \in Names, b \in Behaviours : Quiet /\ kind = "scoped" /\ ScopedOn(c, n, b)
PriorityRegisterStep ==
    \E r \in RegisterArgs :
        Quiet /\ kind = "priority" /\ PriorityRegister(r.name, r.fn, r.priority)
PriorityUnregisterStep ==
    \E u \in UnregisterArgs : Quiet /\ kind = "priority" /\ PriorityUnregister(u.name, u.fn)
PriorityOnStep ==
    \E c \in Calls, n \in Names, b \in Behaviours :
        Quiet /\ kind = "priority" /\ PriorityOn(c, n, b)
ParallelRegisterStep ==
    \E r \in PlainArgs : Quiet /\ kind = "parallel" /\ ParallelRegister(r.name, r.fn)
ParallelUnregisterStep ==
    \E u \in UnregisterArgs : Quiet /\ kind = "parallel" /\ ParallelUnregister(u.name, u.fn)
ParallelOnStep ==
    \E c \in Calls, n \in Names, p \in BOOLEAN :
        \E bs \in [1..(IF kind = "parallel" THEN ListLen(n) ELSE 0) -> Behaviours] :
            Quiet /\ kind = "parallel" /\ ParallelOn(c, n, p, bs)
\* What the callback the continuation of call c invokes next may do; a
\* continuation that invokes none is tried once.
NextBehaviours(c) ==
    IF /\ calls[c].st = "pending"
       /\ kind = "priority" \/ (kind = "parallel" /\ ~calls[c].par)
       /\ calls[c].tasks # <<>>
       /\ calls[c].tasks[Len(calls[c].tasks)].st = "fulfilled"
       /\ calls[c].idx < Len(HooksList(calls[c]))
    THEN Behaviours
    ELSE {[how |-> "return", val |-> NoErr]}

ResumeStep == \E c \in Calls : \E b \in NextBehaviours(c) : Quiet /\ Resume(c, b)
SettleStep == \E c \in Calls, i \in 1..MaxRegs, s \in Settlements : Settle(c, i, s)
ForgetStep == \E c \in Calls : Forget(c)

Next ==
    \/ BasicRegisterStep
    \/ BasicUnregisterStep
    \/ BasicOnStep
    \/ ScopedRegisterStep
    \/ ScopedUnregisterStep
    \/ ScopedOnStep
    \/ PriorityRegisterStep
    \/ PriorityUnregisterStep
    \/ PriorityOnStep
    \/ ParallelRegisterStep
    \/ ParallelUnregisterStep
    \/ ParallelOnStep
    \/ ResumeStep
    \/ SettleStep
    \/ ForgetStep

Spec == Init /\ [][Next]_vars

(* ------------- behaviours without registrations under a call ----------- *)

\* no `on` call of `name` is suspended: a register(name, ...) made now adds
\* nothing to the name of a call in flight
NoCallOf(name) == \A c \in Calls : ~(calls[c].st = "pending" /\ calls[c].name = name)

BasicRegisterApart ==
    \E r \in PlainArgs :
        Quiet /\ kind = "basic" /\ NoCallOf(r.name) /\ BasicRegister(r.name, r.fn)
ScopedRegisterApart ==
    \E r \in PlainArgs :
        Quiet /\ kind = "scoped" /\ NoCallOf(Scoped(r.name)) /\ ScopedRegister(r.name, r.fn)
PriorityRegisterApart ==
    \E r \in RegisterArgs :
        Quiet /\ kind = "priority" /\ NoCallOf(r.name)
              /\ PriorityRegister(r.name, r.fn, r.priority)
ParallelRegisterApart ==
    \E r \in PlainArgs :
        Quiet /\ kind = "parallel" /\ NoCallOf(r.name) /\ ParallelRegister(r.name, r.fn)

\* Next with the register calls kept apart from the calls in flight on their
\* name; unregister and the register calls for other names still interleave
NextApart ==
    \/ BasicRegisterApart
    \/ BasicUnregisterStep
    \/ BasicOnStep
    \/ ScopedRegisterApart
    \/ ScopedUnregisterStep
    \/ ScopedOnStep
    \/ PriorityRegisterApart
    \/ PriorityUnregisterStep
    \/ PriorityOnStep
    \/ ParallelRegisterApart
    \/ ParallelUnregisterStep
    \/ ParallelOnStep
    \/ ResumeStep
    \/ SettleStep
    \/ ForgetStep

\* The job queue runs the continuation of a call whose awaited promise has
\* settled (ResumeStep), and every promise a callback returned settles in the
\* end (SettleStep).
FairSpec ==
    Init /\ [][NextApart]_vars /\ WF_vars(ResumeStep) /\ WF_vars(SettleStep)

(* ------------------------------- claims -------------------------------- *)

\* `name` has a registration that was made and not removed since
HasLive(name) == \E l \in live : l.name = name

\* the registrations of `name` that are live
LiveOf(name) == {l \in live : l.name = name}

\* the earliest and the latest live registration of `name`
FirstLive(name) == CHOOSE l \in LiveOf(name) : \A m \in LiveOf(name) : l.id <= m.id
LatestLive(name) == CHOOSE l \in LiveOf(name) : \A m \in LiveOf(name) : l.id >= m.id

\* step of call c from not made to made
Called(c) == calls[c].st = "idle" /\ calls'[c].st # "idle"

\* C1: in the basic registry, register under a name that already has a
\* callback throws DuplicateHookError and changes nothing: the Map still
\* holds the first callback registered, list() is the same, and an `on`
\* made afterwards invokes that first callback.
C1_DuplicateKeepsFirst ==
    /\ [](kind = "basic" =>
            \A n \in Names : HasLive(n) =>
                /\ BasicRegisterResult(n) = "DuplicateHookError"
                /\ MapHas(hooks, n)
                /\ MapGet(hooks, n).fn = FirstLive(n).fn
                /\ MapGet(hooks, n).id = FirstLive(n).id)
    /\ [][kind = "basic" =>
            /\ \A r \in PlainArgs :
                  (HasLive(r.name) /\ BasicRegister(r.name, r.fn)) =>
                      (hooks' = hooks /\ BasicList' = BasicList /\ live' = live)
            /\ \A c \in Calls :
                  (Called(c) /\ HasLive(calls'[c].name)) =>
                      (/\ Len(calls'[c].tasks) = 1
                       /\ calls'[c].tasks[1].entry.fn = FirstLive(calls'[c].name).fn)]_vars

\* "a" holds g, so that register("a", f) is refused, and on("a") has run g
C1_Witness ==
    /\ kind = "basic"
    /\ BasicRegisterResult("a") = "DuplicateHookError"
    /\ MapGet(hooks, "a").fn = "g"
    /\ calls["c1"].st = "resolved"
    /\ calls["c1"].name = "a"
    /\ calls["c1"].tasks[1].entry.fn = "g"

\* C2: in the basic and the scoped registry, on(name) for a name without a
\* registered callback is rejected with HookNotFoundError, invokes no
\* callback and leaves the registrations as they were.
C2_OnUnregisteredNotFound ==
    [][\A c \in Calls :
          (kind \in {"basic", "scoped"} /\ Called(c) /\ ~HasLive(calls'[c].name)) =>
              (/\ calls'[c].st = "rejected"
               /\ calls'[c].err.cls = "HookNotFoundError"
               /\ calls'[c].tasks = <<>>
               /\ hooks' = hooks
               /\ live' = live)]_vars

\* scoped on("a") was rejected while only "b" is registered
C2_Witness ==
    /\ kind = "scoped"
    /\ ScopedList = <<"b">>
    /\ calls["c1"].st = "rejected"
    /\ calls["c1"].name = Scoped("a")
    /\ calls["c1"].err.cls = "HookNotFoundError"

\* has(name) of the registry the instance is
Has(name) ==
    CASE kind = "basic" -> BasicHas(name)
      [] kind = "scoped" -> ScopedHas(name)
      [] kind = "priority" -> PriorityHas(name)
      [] kind = "parallel" -> ParallelHas(name)

\* the name the registry stores for the caller's `name`
Stored(name) == IF kind = "scoped" THEN Scoped(name) ELSE name

\* C3: in every registry, has(name) is true exactly when name has at least
\* one callback that was registered and not removed since; so it is false
\* right after unregister(name).
C3_HasIffLive == \A n \in Names : Has(n) <=> HasLive(Stored(n))

\* two callbacks were registered under "a" and unregister("a", ...) removed
\* them; "b" is still registered
C3_Witness ==
    /\ kind = "priority"
    /\ nextId = 4
    /\ ~PriorityHas("a")
    /\ PriorityHas("b")
    /\ (\E l \in live : l.name = "b" /\ l.id = 1)

\* C4: in the basic registry a name that was registered and unregistered
\* leaves nothing behind: has(name) is false, a new register(name, fn2)
\* returns normally, and from then on the Map holds fn2 and `on` invokes it.
C4_RoundTrip ==
    kind = "basic" =>
        \A n \in Names :
            /\ ~HasLive(n) => (~BasicHas(n) /\ BasicRegisterResult(n) = "void")
            /\ HasLive(n) =>
                  (/\ BasicHas(n)
                   /\ MapGet(hooks, n) = [fn |-> LatestLive(n).fn, id |-> LatestLive(n).id])
            /\ \A c \in Calls :
                  (calls[c].name = n /\ calls[c].tasks # <<>> /\ ~calls[c].mut) =>
                      (/\ HasLive(n)
                       /\ calls[c].tasks[1].entry.fn = LatestLive(n).fn
                       /\ calls[c].tasks[1].entry.id = LatestLive(n).id)

\* "b" was registered first, "a" was registered, unregistered and registered
\* again with g, and on("a") has run g
C4_Witness ==
    /\ kind = "basic"
    /\ live = {[id |-> 1, name |-> "b", fn |-> "f"], [id |-> 3, name |-> "a", fn |-> "g"]}
    /\ calls["c1"].st = "resolved"
    /\ calls["c1"].name = "a"
    /\ calls["c1"].tasks[1].entry.fn = "g"

\* the Map as a set of key/value pairs
Pairs(m) == {<<m[i].key, m[i].val>> : i \in 1..Len(m)}

\* C5: in the basic registry unregister(name) can always be called and never
\* throws; it returns true exactly when name had a callback, removes the
\* entry of name and nothing else, and leaves the other entries and their
\* order as they were.
C5_UnregisterFrame ==
    /\ [](kind = "basic" =>
            \A n \in Names :
                /\ BasicUnregisterResult(n) <=> HasLive(n)
                /\ Quiet => ENABLED BasicUnregister(n))
    /\ [][kind = "basic" =>
            \A n \in Names : BasicUnregister(n) =>
                /\ ~MapHas(hooks', n)
                /\ Pairs(hooks') = {p \in Pairs(hooks) : p[1] # n}
                /\ BasicList' = SelectSeq(BasicList, LAMBDA k : k # n)]_vars

\* "a" was registered after "b" and unregister("a") removed it; "b" is
\* still there
C5_Witness ==
    /\ kind = "basic"
    /\ nextId = 3
    /\ live = {[id |-> 1, name |-> "b", fn |-> "f"]}
    /\ BasicList = <<"b">>
    /\ ~BasicUnregisterResult("a")
    /\ BasicUnregisterResult("b")

\* C6: in the basic registry list() is the names that are registered, each
\* once, in the order their live registrations were made; a name registered
\* again after an unregister stands where its latest registration puts it.
C6_ListInRegistrationOrder ==
    kind = "basic" =>
        /\ Len(BasicList) = Cardinality(live)
        /\ \A i \in 1..Len(BasicList) : HasLive(BasicList[i])
        /\ \A i, j \in 1..Len(BasicList) :
              i < j => LatestLive(BasicList[i]).id < LatestLive(BasicList[j]).id

\* "a", "b" were registered, "a" unregistered and registered again (or the
\* same with the names swapped): the name registered again is listed last
C6_Witness ==
    /\ kind = "basic"
    /\ BasicList = <<"b", "a">>
    /\ (\E l \in live : l.name = "b" /\ l.id = 2)
    /\ (\E l \in live : l.name = "a" /\ l.id = 3)

\* entry x is run before entry y: higher priority first, registration order
\* among equal priorities
Precedes(x, y) == x.priority > y.priority \/ (x.priority = y.priority /\ x.id < y.id)

\* C7: in the priority registry an `on` call in which no callback fails, made
\* after the register calls, invokes every callback registered under the name
\* exactly once, in descending priority, callbacks of equal priority in the
\* order they were registered.
C7_PriorityOrder ==
    kind = "priority" =>
        \A c \in Calls :
            (calls[c].st = "resolved" /\ ~calls[c].mut) =>
                LET ran == calls[c].tasks
                IN  /\ Len(ran) = Cardinality(LiveOf(calls[c].name))
                    /\ \A l \in LiveOf(calls[c].name) :
                          \E i \in 1..Len(ran) :
                              /\ ran[i].entry.id = l.id
                              /\ ran[i].entry.fn = l.fn
                              /\ ran[i].entry.priority = l.priority
                    /\ \A i, j \in 1..Len(ran) :
                          i < j => Precedes(ran[i].entry, ran[j].entry)
                    /\ \A i \in 1..Len(ran) : ran[i].st = "fulfilled"

\* priorities 5, 20, 10 registered in that order ran as 20, 10, 5
C7_Witness ==
    /\ kind = "priority"
    /\ calls["c1"].st = "resolved"
    /\ ~calls["c1"].mut
    /\ Len(calls["c1"].tasks) = 3
    /\ [i \in 1..3 |-> calls["c1"].tasks[i].entry.priority] = <<20, 10, 5>>
    /\ [i \in 1..3 |-> calls["c1"].tasks[i].entry.id] = <<2, 3, 1>>

\* C8: in the priority registry the list stored under every name is sorted by
\* priority, highest first, and entries of equal priority are in the order
\* they were registered, whatever register and unregister calls were made.
C8_StoredListsSorted ==
    kind = "priority" =>
        \A k \in 1..Len(hooks) :
            LET list == hooks[k].val
            IN  /\ \A i, j \in 1..Len(list) : i < j => Precedes(list[i], list[j])
                /\ \A i \in 1..Len(list) :
                      \E l \in LiveOf(hooks[k].key) :
                          l.id = list[i].id /\ l.priority = list[i].priority

\* three registrations under "a", the middle one removed by
\* unregister("a", fn): two entries of equal priority remain in their order
C8_Witness ==
    /\ kind = "priority"
    /\ MapHas(hooks, "a")
    /\ Len(MapGet(hooks, "a")) = 2
    /\ MapGet(hooks, "a")[1].id = 1
    /\ MapGet(hooks, "a")[2].id = 3
    /\ MapGet(hooks, "a")[1].priority = MapGet(hooks, "a")[2].priority

\* the call runs its callbacks one after the other
Sequential(c) == kind = "priority" \/ (kind = "parallel" /\ ~calls[c].par)

\* C9: in the priority registry and in the sequential mode of the parallel
\* registry one `on` call has at most one callback in progress: a callback
\* is started only when every callback started before it has completed.
C9_OneAtATime ==
    \A c \in Calls :
        Sequential(c) =>
            /\ Cardinality({i \in 1..Len(calls[c].tasks) : calls[c].tasks[i].st = "running"}) <= 1
            /\ \A i \in 1..Len(calls[c].tasks) :
                  i < Len(calls[c].tasks) => calls[c].tasks[i].st = "fulfilled"

\* a sequential call of the parallel registry is in its third callback
C9_Witness ==
    /\ kind = "parallel"
    /\ calls["c1"].st = "pending"
    /\ ~calls["c1"].par
    /\ Len(calls["c1"].tasks) = 3
    /\ calls["c1"].tasks[3].st = "running"

\* C10: in the priority registry and in the sequential mode of the parallel
\* registry a callback that throws or rejects ends the `on` call: no callback
\* is invoked after it, the call is rejected with a HookError that is the
\* wrapped failure, and the callbacks before it in the list have each run
\* once and stay run.  A throw rejects the call on the spot; after a rejected
\* promise the call is suspended until its continuation runs, and whatever
\* was registered or removed meanwhile that continuation invokes nothing and
\* rejects the call.
C10_FailFast ==
    \A c \in Calls :
        Sequential(c) =>
            \A i \in 1..Len(calls[c].tasks) :
                calls[c].tasks[i].st \in {"threw", "rejected"} =>
                    /\ i = Len(calls[c].tasks)
                    /\ calls[c].st \in {"pending", "rejected"}
                    /\ calls[c].st = "pending" =>
                          /\ calls[c].tasks[i].st = "rejected"
                          /\ \A b \in Behaviours :
                                Continue(calls[c], b) =
                                    Fail(calls[c], calls[c].tasks,
                                         WrapError(calls[c].name, calls[c].tasks[i].val))
                    /\ calls[c].st = "rejected" =>
                          calls[c].err = WrapError(calls[c].name, calls[c].tasks[i].val)
                    /\ WrapError(calls[c].name, calls[c].tasks[i].val).cls = "HookError"
                    /\ \A j \in 1..(i - 1) : calls[c].tasks[j].st = "fulfilled"
                    /\ ~calls[c].mut =>
                          /\ i <= Cardinality(LiveOf(calls[c].name))
                          /\ \A j \in 1..i :
                                calls[c].tasks[j].entry.id = MapGet(hooks, calls[c].name)[j].id

\* the second of three callbacks rejected: the call failed and the third
\* was not invoked
C10_Witness ==
    /\ kind = "priority"
    /\ calls["c1"].st = "rejected"
    /\ ~calls["c1"].mut
    /\ Len(calls["c1"].tasks) = 2
    /\ calls["c1"].tasks[2].st = "rejected"
    /\ Cardinality(LiveOf(calls["c1"].name)) = 3

\* the registration numbers of the callbacks a call has invoked, in the order
\* it invoked them
RanIds(c) == [i \in 1..Len(calls[c].tasks) |-> calls[c].tasks[i].entry.id]

\* C11: in the sequential mode of the parallel registry the callbacks of a
\* name are invoked in the order they were registered and each is invoked
\* only when the one before it has completed, so they complete in
\* registration order too; a call that resolves with no register or unregister
\* on its name in between has run every registered callback of the name.
C11_SequentialInRegistrationOrder ==
    kind = "parallel" =>
        /\ \A k \in 1..Len(hooks) :
              \A i, j \in 1..Len(hooks[k].val) :
                  i < j => hooks[k].val[i].id < hooks[k].val[j].id
        /\ \A c \in Calls :
              ~calls[c].par =>
                  /\ \A i, j \in 1..Len(RanIds(c)) : i < j => RanIds(c)[i] < RanIds(c)[j]
                  /\ \A i \in 1..Len(calls[c].tasks) :
                        i < Len(calls[c].tasks) => calls[c].tasks[i].st = "fulfilled"
                  /\ (calls[c].st = "resolved" /\ ~calls[c].mut) =>
                        /\ {RanIds(c)[i] : i \in 1..Len(RanIds(c))}
                               = {l.id : l \in LiveOf(calls[c].name)}
                        /\ \A i \in 1..Len(calls[c].tasks) :
                              calls[c].tasks[i].st = "fulfilled"

\* g, f, g registered under "a" and run by a sequential call in that order
C11_Witness ==
    /\ kind = "parallel"
    /\ calls["c1"].st = "resolved"
    /\ ~calls["c1"].par
    /\ ~calls["c1"].mut
    /\ calls["c1"].name = "a"
    /\ RanIds("c1") = <<1, 2, 3>>
    /\ [i \in 1..3 |-> calls["c1"].tasks[i].entry.fn] = <<"g", "f", "g">>

\* C12: in the concurrent mode of the parallel registry every callback
\* registered under the name has been invoked when the `on` call reaches its
\* await (or is rejected before it), whatever the callbacks do when invoked,
\* a callback that throws included.
C12_AllStartedBeforeAwait ==
    kind = "parallel" =>
        \A c \in Calls :
            (calls[c].par /\ calls[c].tasks # <<>> /\ ~calls[c].mut) =>
                {RanIds(c)[i] : i \in 1..Len(RanIds(c))}
                    = {l.id : l \in LiveOf(calls[c].name)}

\* C13: in the concurrent mode of the parallel registry an `on` call is
\* resolved only when every callback it started has completed successfully,
\* never while one of them is still running; with no register or unregister
\* on its name in between, these are all the callbacks registered under the
\* name.
C13_ResolvesAfterAll ==
    kind = "parallel" =>
        \A c \in Calls :
            (calls[c].par /\ calls[c].st = "resolved") =>
                /\ calls[c].tasks # <<>>
                /\ \A i \in 1..Len(calls[c].tasks) : calls[c].tasks[i].st = "fulfilled"
                /\ ~calls[c].mut =>
                      {RanIds(c)[i] : i \in 1..Len(RanIds(c))}
                          = {l.id : l \in LiveOf(calls[c].name)}

\* a concurrent call over three callbacks has resolved
C13_Witness ==
    /\ kind = "parallel"
    /\ calls["c1"].par
    /\ calls["c1"].st = "resolved"
    /\ ~calls["c1"].mut
    /\ Len(calls["c1"].tasks) = 3
    /\ Cardinality(LiveOf(calls["c1"].name)) = 3

\* the callbacks of call c that have failed: thrown when invoked, or returned
\* a promise that was rejected
FailedTasks(c) ==
    {i \in 1..Len(calls[c].tasks) : calls[c].tasks[i].st \in {"threw", "rejected"}}

\* C14: in the concurrent mode of the parallel registry the `on` call is
\* rejected with a HookError wrapping a failure once one of its callbacks has
\* thrown or been rejected, whether the others have completed or not: on the
\* spot after a throw, and after a rejected promise by the continuation of
\* the call, which is ready to run with callbacks still running and rejects
\* the call with the first rejection there was.  The callbacks that were
\* started and are still running are left as they are by the failure and can
\* each still complete afterwards.
C14_FailsAtFirstFailure ==
    /\ [](kind = "parallel" =>
            \A c \in Calls :
                (calls[c].par /\ FailedTasks(c) # {}) =>
                    /\ calls[c].st \in {"pending", "rejected"}
                    /\ calls[c].st = "rejected" =>
                          calls[c].err
                            \in {WrapError(calls[c].name, calls[c].tasks[i].val) :
                                    i \in FailedTasks(c)}
                    /\ calls[c].st = "pending" =>
                          /\ calls[c].rej \in FailedTasks(c)
                          /\ ENABLED ResumeStep
                          /\ \A b \in Behaviours :
                                Continue(calls[c], b) =
                                    Fail(calls[c], calls[c].tasks,
                                         WrapError(calls[c].name,
                                                   calls[c].tasks[calls[c].rej].val))
                    /\ \A i \in 1..Len(calls[c].tasks) :
                          calls[c].tasks[i].st = "running" =>
                              \A s \in Settlements :
                                  ENABLED Settle(c, i, s))
    /\ [][kind = "parallel" =>
            \A c \in Calls :
                /\ (calls[c].par /\ calls[c].st = "pending" /\ calls'[c].st = "rejected") =>
                      /\ FailedTasks(c) # {}
                      /\ calls'[c].tasks = calls[c].tasks
                /\ (calls[c].par /\ calls[c].st = "pending" /\ calls[c].rej # 0) =>
                      /\ calls'[c].st \in {"pending", "rejected"}
                      /\ calls'[c].st = "pending" => calls'[c].rej = calls[c].rej]_vars

\* the second of three concurrent callbacks was rejected: the call has failed
\* with the first and the third still running
C14_Witness ==
    /\ kind = "parallel"
    /\ calls["c1"].par
    /\ calls["c1"].st = "rejected"
    /\ calls["c1"].err = WrapError("a", ErrBoom)
    /\ Len(calls["c1"].tasks) = 3
    /\ [i \in 1..3 |-> calls["c1"].tasks[i].st] = <<"running", "rejected", "running">>

\* what unregister(name, fn) must leave: the entries of `name` whose callback
\* is not fn, in their order, the key gone when none is left, and every other
\* key with its list and its place
RemovesExactly(name, fn) ==
    LET old == IF MapHas(hooks, name) THEN MapGet(hooks, name) ELSE <<>>
        kept == SelectSeq(old, LAMBDA h : h.fn # fn)
    IN  /\ IF kept = <<>> THEN ~MapHas(hooks', name)
           ELSE MapHas(hooks', name) /\ MapGet(hooks', name) = kept
        /\ {p \in Pairs(hooks') : p[1] # name} = {p \in Pairs(hooks) : p[1] # name}
        /\ MapKeys(hooks') = IF kept = <<>> THEN SelectSeq(MapKeys(hooks), LAMBDA k : k # name)
                             ELSE MapKeys(hooks)
        /\ live' = {l \in live : ~(l.name = name /\ l.fn = fn)}

\* the callbacks call c has invoked are the first entries of the list stored
\* under its name
RanStoredPrefix(c) ==
    /\ MapHas(hooks, calls[c].name)
    /\ Len(calls[c].tasks) <= Len(MapGet(hooks, calls[c].name))
    /\ \A i \in 1..Len(calls[c].tasks) :
          calls[c].tasks[i].entry = MapGet(hooks, calls[c].name)[i]

\* C15: in the priority and the parallel registry unregister(name, fn)
\* removes the entries of name whose callback is fn and no other, keeps the
\* remaining entries of name in their order, leaves every other name as it
\* was, removes the name when no entry remains, and returns true exactly when
\* name had an entry with callback fn; the remaining entries are what a later
\* on(name) runs.  The steps looked at are those of unregister(name, fn): they
\* register nothing, start, resume and end no call, and take the
\* registrations of fn under name, and no other, out of `live`.
C15_UnregisterFnFrame ==
    /\ [](kind \in {"priority", "parallel"} =>
            /\ \A u \in UnregisterArgs :
                  u.fn # NoFn =>
                      ((IF kind = "priority" THEN PriorityUnregisterResult(u.name, u.fn)
                        ELSE ParallelUnregisterResult(u.name, u.fn))
                          <=> \E l \in live : l.name = u.name /\ l.fn = u.fn)
            /\ \A k \in 1..Len(hooks) :
                  /\ hooks[k].val # <<>>
                  /\ {hooks[k].val[i].id : i \in 1..Len(hooks[k].val)}
                        = {l.id : l \in LiveOf(hooks[k].key)}
            /\ \A c \in Calls :
                  (calls[c].tasks # <<>> /\ ~calls[c].mut) => RanStoredPrefix(c))
    /\ [][(/\ vars' # vars
            /\ nextId' = nextId
            /\ kind \in {"priority", "parallel"}
            /\ \A c \in Calls : calls'[c].tasks = calls[c].tasks /\ calls'[c].st = calls[c].st) =>
            \A u \in UnregisterArgs :
                (u.fn # NoFn /\ live' = {l \in live : ~(l.name = u.name /\ l.fn = u.fn)}) =>
                    /\ (kind = "priority" /\ PriorityUnregister(u.name, u.fn))
                          => RemovesExactly(u.name, u.fn)
                    /\ (kind = "parallel" /\ ParallelUnregister(u.name, u.fn))
                          => RemovesExactly(u.name, u.fn)]_vars

\* f, g, f were registered under "a" and unregister("a", f) removed both
\* entries of f; on("a") then ran g alone
C15_Witness ==
    /\ kind = "parallel"
    /\ nextId = 4
    /\ MapHas(hooks, "a")
    /\ MapGet(hooks, "a") = <<[fn |-> "g", id |-> 2]>>
    /\ calls["c1"].st = "resolved"
    /\ calls["c1"].name = "a"
    /\ RanIds("c1") = <<2>>

\* list() of the basic registry or of its scoped wrapper
NamesListed == IF kind = "scoped" THEN ScopedList ELSE BasicList

\* C16: the scoped registry answers every call as the basic registry does
\* over the names the caller uses: for both, has, list, the outcome of
\* register, of unregister and of on are the same functions of the
\* registrations made and not removed, with the same error classes; list()
\* of the scoped registry gives the caller's names, without prefix, in
\* registration order, and its inner Map holds a name under
\* prefix + ":" + name and under no other key.
C16_ScopedAsBasic ==
    kind \in {"basic", "scoped"} =>
        /\ \A n \in Names :
              /\ Has(n) <=> HasLive(Stored(n))
              /\ BasicRegisterResult(Stored(n))
                    = IF HasLive(Stored(n)) THEN "DuplicateHookError" ELSE "void"
              /\ BasicUnregisterResult(Stored(n)) <=> HasLive(Stored(n))
              /\ kind = "scoped" => (~MapHas(hooks, n) /\ MapHas(hooks, Scoped(n)) = ScopedHas(n))
        /\ Len(NamesListed) = Cardinality(live)
        /\ \A i \in 1..Len(NamesListed) :
              NamesListed[i] \in Names /\ HasLive(Stored(NamesListed[i]))
        /\ \A i, j \in 1..Len(NamesListed) :
              i < j => LatestLive(Stored(NamesListed[i])).id < LatestLive(Stored(NamesListed[j])).id
        /\ \A k \in 1..Len(hooks) : \E n \in Names : hooks[k].key = Stored(n)
        /\ \A c \in Calls :
              /\ calls[c].st # "idle" => \E n \in Names : calls[c].name = Stored(n)
              /\ calls[c].st = "rejected" =>
                    IF calls[c].tasks = <<>>
                    THEN calls[c].err = HookNotFoundError(calls[c].name)
                            /\ ~HasLive(calls[c].name)
                    ELSE calls[c].err = WrapError(calls[c].name, calls[c].tasks[1].val)
              /\ calls[c].st = "resolved" => calls[c].tasks # <<>>
              /\ (calls[c].tasks # <<>> /\ ~calls[c].mut) =>
                    /\ Len(calls[c].tasks) = 1
                    /\ HasLive(calls[c].name)
                    /\ calls[c].tasks[1].entry.fn = LatestLive(calls[c].name).fn
                    /\ calls[c].tasks[1].entry.id = LatestLive(calls[c].name).id

\* scoped registry: "a" and "b" were registered, "a" unregistered and
\* registered again with g; list() gives the bare names, the Map holds the
\* prefixed ones, and on("a") has run g
C16_Witness ==
    /\ kind = "scoped"
    /\ ScopedList = <<"b", "a">>
    /\ BasicList = <<"user:b", "user:a">>
    /\ calls["c1"].st = "resolved"
    /\ calls["c1"].name = "user:a"
    /\ calls["c1"].tasks[1].entry = [fn |-> "g", id |-> 3]

\* C17: in every registry a rejected `on` call carries one of two errors: the
\* HookNotFoundError of its name, thrown before any callback is invoked, when
\* the name has no callback; or a HookError (never a subclass) whose message
\* holds the name and the message of a failed callback, or the unknown-error
\* text when what the callback threw is not an Error.  Whatever a callback
\* fails with, a HookNotFoundError or DuplicateHookError included, the call
\* is rejected with that HookError: at the throw, or by its continuation when
\* the callback's promise was rejected.
C17_ErrorKinds ==
    \A c \in Calls :
        /\ calls[c].st = "rejected" <=> calls[c].err # NoErr
        /\ calls[c].st = "rejected" =>
              /\ calls[c].err.cls \in {"HookNotFoundError", "HookError"}
              /\ calls[c].err.isError
        /\ (calls[c].st = "rejected" /\ calls[c].tasks = <<>>) =>
              /\ calls[c].err.cls = "HookNotFoundError"
              /\ calls[c].err.message = "Hook \"" \o calls[c].name \o "\" is not registered"
              /\ ~HasLive(calls[c].name)
        /\ FailedTasks(c) # {} =>
              /\ calls[c].st \in {"pending", "rejected"}
              /\ \A b \in Behaviours :
                    LET call == IF calls[c].st = "pending"
                                THEN Continue(calls[c], b) ELSE calls[c]
                    IN  /\ call.st = "rejected"
                        /\ call.err.cls = "HookError"
                        /\ \E i \in FailedTasks(c) :
                              call.err.message =
                                  IF calls[c].tasks[i].val.isError
                                  THEN "Error in hook \"" \o calls[c].name \o "\": "
                                          \o calls[c].tasks[i].val.message
                                  ELSE "Unknown error in hook \"" \o calls[c].name \o "\""
        /\ (calls[c].st = "rejected" /\ calls[c].tasks # <<>>) => FailedTasks(c) # {}

\* the second callback of "a" was rejected with a HookNotFoundError of its
\* own: on("a") is rejected with a plain HookError naming "a"
C17_Witness ==
    /\ kind = "priority"
    /\ calls["c1"].st = "rejected"
    /\ Len(calls["c1"].tasks) = 2
    /\ calls["c1"].tasks[2].val.cls = "HookNotFoundError"
    /\ calls["c1"].err =
          HookError("Error in hook \"a\": Hook \"inner\" is not registered")

\* the callbacks of call c whose promise has not settled
RunningTasks(c) == {i \in 1..Len(calls[c].tasks) : calls[c].tasks[i].st = "running"}

\* the call runs its callbacks all at once: on(name, data, true)
Concurrent(c) == kind = "parallel" /\ calls[c].par

\* C18 as stated: in every registry and mode a settled `on` call, resolved or
\* rejected, has no callback still running; a callback that is running may
\* stay so for ever, so a call settled with one running is a call that has
\* settled although a callback never does.
C18_NeverSettles ==
    \A c \in Calls : calls[c].st \in {"resolved", "rejected"} => RunningTasks(c) = {}

\* C18: an `on` call with a callback still running is never resolved, in any
\* registry and mode; outside the concurrent mode it is not rejected either;
\* in the concurrent mode it is rejected only by the failure of another of
\* its callbacks.  A suspended call with a callback still running stays
\* suspended whatever else happens, but for that rejection: there is no
\* timeout and no cancellation.
C18_HangsUnlessSiblingFails ==
    /\ [](\A c \in Calls :
            /\ calls[c].st = "resolved" => RunningTasks(c) = {}
            /\ (calls[c].st = "rejected" /\ ~Concurrent(c)) => RunningTasks(c) = {}
            /\ (calls[c].st = "rejected" /\ RunningTasks(c) # {}) =>
                  /\ Concurrent(c)
                  /\ FailedTasks(c) # {}
                  /\ calls[c].err.cls = "HookError")
    /\ [][\A c \in Calls :
            (calls[c].st = "pending" /\ RunningTasks(c) # {} /\ calls'[c].st # "pending") =>
                /\ Concurrent(c)
                /\ FailedTasks(c) # {}
                /\ calls'[c].st = "rejected"
                /\ calls'[c].tasks = calls[c].tasks]_vars

\* a concurrent call whose first and third callback are done is still
\* suspended on the second
C18_Witness ==
    /\ kind = "parallel"
    /\ calls["c1"].par
    /\ calls["c1"].st = "pending"
    /\ Len(calls["c1"].tasks) = 3
    /\ [i \in 1..3 |-> calls["c1"].tasks[i].st] = <<"fulfilled", "running", "fulfilled">>

\* list() of the priority or of the parallel registry
ListsListed == IF kind = "priority" THEN PriorityList ELSE ParallelList

\* C19: in the priority and the parallel registry list() holds a name exactly
\* when has(name) is true, each name once, whatever register, unregister(name)
\* and unregister(name, fn) calls were made; the Map never holds a name with
\* an empty list.
C19_ListIsHas ==
    kind \in {"priority", "parallel"} =>
        /\ \A n \in Names : (\E i \in 1..Len(ListsListed) : ListsListed[i] = n) <=> Has(n)
        /\ \A i \in 1..Len(ListsListed) : ListsListed[i] \in Names /\ Has(ListsListed[i])
        /\ \A i, j \in 1..Len(ListsListed) : i # j => ListsListed[i] # ListsListed[j]
        /\ \A k \in 1..Len(hooks) : Len(hooks[k].val) > 0

\* f under "a", f under "b" and g under "a" were registered, then
\* unregister("a", f) and unregister("a", g) emptied "a": list() is ["b"]
C19_Witness ==
    /\ kind = "parallel"
    /\ nextId = 4
    /\ live = {[id |-> 2, name |-> "b", fn |-> "f"]}
    /\ ParallelList = <<"b">>
    /\ ~ParallelHas("a")

\* C20: in every registry the steps of an `on` call (the call itself, the
\* settlement of a callback, the continuation, the end of the call) leave the
\* Map as it is: the names, the callbacks of each name and their order change
\* only in register and unregister steps, so they are after the call settles
\* what they were when it was made unless such a step came in between.
C20_OnLeavesRegistrations ==
    /\ [][\A c \in Calls :
            (calls'[c].st # calls[c].st \/ calls'[c].tasks # calls[c].tasks) =>
                /\ hooks' = hooks
                /\ live' = live
                /\ nextId' = nextId
                /\ \A n \in Names : Has(n)' = Has(n)]_vars
    /\ [](\A c \in Calls :
            (calls[c].st \in {"resolved", "rejected"} /\ calls[c].tasks # <<>> /\ ~calls[c].mut) =>
                /\ MapHas(hooks, calls[c].name)
                /\ \A i \in 1..Len(calls[c].tasks) :
                      \E l \in LiveOf(calls[c].name) : l.id = calls[c].tasks[i].entry.id)

\* on("a") failed in the first of its two callbacks; both are still stored,
\* after "b", as they were
C20_Witness ==
    /\ kind = "priority"
    /\ calls["c1"].st = "rejected"
    /\ calls["c1"].name = "a"
    /\ ~calls["c1"].mut
    /\ Len(calls["c1"].tasks) = 1
    /\ MapKeys(hooks) = <<"b", "a">>
    /\ Len(MapGet(hooks, "a")) = 2
    /\ calls["c1"].tasks[1].entry = MapGet(hooks, "a")[1]

\* C21: in the priority registry one `on` call invokes an entry at most once,
\* also when register or unregister is called for its name while it is
\* suspended: no two callbacks the call has invoked are the same registration.
C21_AtMostOnce ==
    kind = "priority" =>
        \A c \in Calls :
            \A i, j \in 1..Len(calls[c].tasks) :
                i # j => calls[c].tasks[i].entry.id # calls[c].tasks[j].entry.id

\* C22: in the sequential mode of the parallel registry the callbacks one
\* `on` call invokes are those of the list of its name when it was called:
\* from the call to its settlement no step, a register or unregister for the
\* name by another flow included, adds a callback to or removes one from the
\* list the call is running through.
C22_InFlightListFixed ==
    [][kind = "parallel" =>
          \A c \in Calls :
              (calls[c].st = "pending" /\ ~calls[c].par /\ calls'[c].st = "pending") =>
                  HooksList(calls[c])' = HooksList(calls[c])]_vars

\* C23: in every registry and mode, when every promise the callbacks of an
\* `on` call return settles and no register call adds to the name of the
\* call while it is in flight, the call settles: it resolves, or it is
\* rejected with a HookNotFoundError or a HookError.
C23_OnSettles ==
    \A c \in Calls :
        calls[c].st = "pending" ~>
            \/ calls[c].st = "resolved"
            \/ calls[c].st = "rejected" /\ calls[c].err.cls \in {"HookNotFoundError", "HookError"}

\* on("a") ran three callbacks and resolved although unregister("a") removed
\* the name while the call was suspended
C23_Witness ==
    /\ kind = "priority"
    /\ calls["c1"].st = "resolved"
    /\ calls["c1"].name = "a"
    /\ calls["c1"].mut
    /\ Len(calls["c1"].tasks) = 3
    /\ ~MapHas(hooks, "a")

====
